---------------------------- MODULE Spec2Model ----------------------------
(***************************************************************************)
(* Model of IClashTemp (backend/tauri/src/config/clash/mod.rs): the clash  *)
(* configuration document, its guard (normalisation of `mixed-port` and    *)
(* `external-controller`), patch_config, save_config, the derived views    *)
(* and prepare_external_controller_port.                                   *)
(*                                                                         *)
(* A Rust String is a sequence of characters, each a one-character string  *)
(* (or, for a character no TLA+ string holds, the name of its code point,   *)
(* such as "U+00A0"), so that trimming, splitting, parsing and formatting   *)
(* are computed character by character.                                    *)
(* A serde_yaml Value is a record tagged by its variant in field t.        *)
(* A Mapping is a sequence of entries [k, v] with unique keys, in          *)
(* insertion order.  An Option is the empty sequence (None) or a           *)
(* one-element sequence (Some).                                            *)
(***************************************************************************)
EXTENDS Integers, Sequences, FiniteSets, TLC

VARIABLES
    doc,    \* self.0, the Mapping owned by IClashTemp
    prev,   \* the Mapping as it was when the last operation was called
    op,     \* name of the last operation
    arg,    \* input of the last operation (what its collaborators returned, its parameter)
    ret     \* what the last operation returned

vars == <<doc, prev, op, arg, ret>>

-----------------------------------------------------------------------------
(* Option<T> *)

None == <<>>

Some(x) == <<x>>

IsSome(o) == Len(o) = 1

Unwrap(o) == o[1]

UnwrapOr(o, d) == IF IsSome(o) THEN o[1] ELSE d

-----------------------------------------------------------------------------
(* serde_yaml::Value *)

VNull == [t |-> "Null"]

VBool(b) == [t |-> "Bool", b |-> b]

\* Number::PosInt / Number::NegInt: an integer n
VInt(n) == [t |-> "Number", float |-> FALSE, n |-> n]

\* Number::Float: the float n/10
VFloat(n) == [t |-> "Number", float |-> TRUE, n |-> n]

VStr(s) == [t |-> "String", s |-> s]

VSeq(items) == [t |-> "Sequence", items |-> items]

VMap(m) == [t |-> "Mapping", m |-> m]

\* Value::as_str
as_str(value) == IF value.t = "String" THEN Some(value.s) ELSE None

\* Number::as_u64: only a non-negative integer converts
as_u64(num) == IF ~num.float /\ num.n >= 0 THEN Some(num.n) ELSE None

-----------------------------------------------------------------------------
(* serde_yaml::Mapping *)

Keys(m) == {m[i].k : i \in 1..Len(m)}

IndexOf(m, key) == CHOOSE i \in 1..Len(m) : m[i].k = key

\* Mapping::get
Get(m, key) == IF key \in Keys(m) THEN Some(m[IndexOf(m, key)].v) ELSE None

\* Mapping::insert: an existing key keeps its position, a new key is appended
Insert(m, key, value) ==
    IF key \in Keys(m)
    THEN [m EXCEPT ![IndexOf(m, key)] = [k |-> key, v |-> value]]
    ELSE Append(m, [k |-> key, v |-> value])

-----------------------------------------------------------------------------
(* Characters and numbers *)

\* char::is_whitespace: the characters of the Unicode property White_Space,
\* U+0009..U+000D, U+0020, U+0085, U+00A0, U+1680, U+2000..U+200A, U+2028,
\* U+2029, U+202F, U+205F and U+3000.  A character that a TLA+ string cannot
\* hold is the one-element string that names its code point.
WhiteSpace ==
    {"\t", "\n", "U+000B", "\f", "\r", " ", "U+0085", "U+00A0", "U+1680",
     "U+2000", "U+2001", "U+2002", "U+2003", "U+2004", "U+2005", "U+2006",
     "U+2007", "U+2008", "U+2009", "U+200A", "U+2028", "U+2029", "U+202F",
     "U+205F", "U+3000"}

DecChars == {"0", "1", "2", "3", "4", "5", "6", "7", "8", "9"}

HexChars == DecChars \cup {"a", "b", "c", "d", "e", "f", "A", "B", "C", "D", "E", "F"}

\* char::to_digit(radix), radix 10 or 16
IsDigit(c, radix) == IF radix = 10 THEN c \in DecChars ELSE c \in HexChars

DigitVal(c) ==
    CASE c = "0" -> 0 [] c = "1" -> 1 [] c = "2" -> 2 [] c = "3" -> 3
      [] c = "4" -> 4 [] c = "5" -> 5 [] c = "6" -> 6 [] c = "7" -> 7
      [] c = "8" -> 8 [] c = "9" -> 9
      [] c \in {"a", "A"} -> 10 [] c \in {"b", "B"} -> 11
      [] c \in {"c", "C"} -> 12 [] c \in {"d", "D"} -> 13
      [] c \in {"e", "E"} -> 14 [] c \in {"f", "F"} -> 15

DigitChar(d) ==
    <<"0", "1", "2", "3", "4", "5", "6", "7", "8", "9",
      "a", "b", "c", "d", "e", "f">>[d + 1]

U8Max == 2^8 - 1

U16Max == 2^16 - 1

\* Display of an unsigned integer ({} is radix 10, {:x} is radix 16, lower case)
RECURSIVE FmtRadix(_, _)
FmtRadix(n, radix) ==
    IF n < radix
    THEN <<DigitChar(n)>>
    ELSE Append(FmtRadix(n \div radix, radix), DigitChar(n % radix))

FmtDec(n) == FmtRadix(n, 10)

FmtHex(n) == FmtRadix(n, 16)

\* str::trim
RECURSIVE TrimStart(_)
TrimStart(s) ==
    IF Len(s) > 0 /\ s[1] \in WhiteSpace THEN TrimStart(Tail(s)) ELSE s

RECURSIVE TrimEnd(_)
TrimEnd(s) ==
    IF Len(s) > 0 /\ s[Len(s)] \in WhiteSpace
    THEN TrimEnd(SubSeq(s, 1, Len(s) - 1))
    ELSE s

trim(s) == TrimEnd(TrimStart(s))

\* str::starts_with(char)
starts_with(s, c) == Len(s) > 0 /\ s[1] = c

\* str::split_once(char): the parts before and after the first c
split_once(s, c) ==
    IF \E i \in 1..Len(s) : s[i] = c
    THEN LET i == CHOOSE j \in 1..Len(s) :
                      s[j] = c /\ \A h \in 1..(j - 1) : s[h] # c
         IN  Some(<<SubSeq(s, 1, i - 1), SubSeq(s, i + 1, Len(s))>>)
    ELSE None

\* <u16 as FromStr>::from_str: an optional '+', then decimal digits only;
\* an empty string, a lone sign, any other character or a value above
\* u16::MAX is an error
RECURSIVE ParseDigitsChecked(_, _, _)
ParseDigitsChecked(digits, acc, max) ==
    IF Len(digits) = 0
    THEN Some(acc)
    ELSE IF digits[1] \notin DecChars
         THEN None
         ELSE LET r == acc * 10 + DigitVal(digits[1])
              IN  IF r > max THEN None
                  ELSE ParseDigitsChecked(Tail(digits), r, max)

ParseU16(s) ==
    IF Len(s) = 0 THEN None
    ELSE IF Len(s) = 1 /\ s[1] \in {"+", "-"} THEN None
    ELSE IF s[1] = "+" THEN ParseDigitsChecked(Tail(s), 0, U16Max)
    ELSE ParseDigitsChecked(s, 0, U16Max)

\* Faulty variant of AsU16: the conversion without the truncation
AsU16_NoTruncation(u) == u

\* `u as u16`: truncation to the low 16 bits
AsU16(u) == u % 2^16

-----------------------------------------------------------------------------
(* std::net address parsing (SocketAddr::from_str).  A reader takes the    *)
(* input s and the position i of the next character and returns            *)
(* [ok, val, pos]; a failed reader leaves the position where it was.       *)
(* A SocketAddr is [v |-> 4, ip |-> 4 octets, port] or                     *)
(* [v |-> 6, ip |-> 8 segments, scope_id, port].                           *)

\* `let x = value; body`: body applied to the value, computed once
Bind(value, body(_)) == body(value)

Fail(i) == [ok |-> FALSE, val |-> 0, pos |-> i]

Ok(v, i) == [ok |-> TRUE, val |-> v, pos |-> i]

\* Parser::read_given_char: the position after c, or 0 when s[i] is not c
AfterChar(s, i, c) == IF i <= Len(s) /\ s[i] = c THEN i + 1 ELSE 0

\* Parser::read_separator: the separator is read before every group but the first
AfterSeparator(s, i, sep, index) == IF index > 0 THEN AfterChar(s, i, sep) ELSE i

\* The digit loop of Parser::read_number: checked_mul and checked_add fail above
\* max, and more than max_digits digits fail (max_digits = 0 stands for None)
RECURSIVE ReadDigits(_, _, _, _, _, _, _)
ReadDigits(s, i, radix, max_digits, max, acc, count) ==
    IF i <= Len(s) /\ IsDigit(s[i], radix)
    THEN LET r == acc * radix + DigitVal(s[i])
         IN  IF r > max THEN [ok |-> FALSE, val |-> 0, pos |-> i, count |-> count]
             ELSE IF max_digits > 0 /\ count + 1 > max_digits
                  THEN [ok |-> FALSE, val |-> 0, pos |-> i, count |-> count]
                  ELSE ReadDigits(s, i + 1, radix, max_digits, max, r, count + 1)
    ELSE [ok |-> TRUE, val |-> acc, pos |-> i, count |-> count]

\* Parser::read_number
ReadNumber(s, i, radix, max_digits, allow_zero_prefix, max) ==
    Bind(ReadDigits(s, i, radix, max_digits, max, 0, 0), LAMBDA r :
        IF ~r.ok \/ r.count = 0 THEN Fail(i)
        ELSE IF ~allow_zero_prefix /\ r.count > 1 /\ s[i] = "0" THEN Fail(i)
        ELSE Ok(r.val, r.pos))

\* Parser::read_ipv4_addr: four decimal groups of at most 3 digits, no zero
\* prefix, each at most 255, separated by '.'
RECURSIVE ReadOctets(_, _, _, _)
ReadOctets(s, i, index, groups) ==
    IF index = 4
    THEN Ok(groups, i)
    ELSE Bind(AfterSeparator(s, i, ".", index), LAMBDA j :
         Bind(IF j = 0 THEN Fail(i) ELSE ReadNumber(s, j, 10, 3, FALSE, U8Max),
              LAMBDA g :
                  IF g.ok
                  THEN ReadOctets(s, g.pos, index + 1, Append(groups, g.val))
                  ELSE Fail(i)))

read_ipv4_addr(s, i) ==
    Bind(ReadOctets(s, i, 0, <<>>), LAMBDA r : IF r.ok THEN r ELSE Fail(i))

\* read_groups of Parser::read_ipv6_addr: up to `limit` hexadecimal groups
\* separated by ':', the last two of which may be an embedded IPv4 address.
\* Returns the groups read, whether an IPv4 address ended them, and the position.
RECURSIVE ReadGroups(_, _, _, _, _)
ReadGroups(s, i, limit, index, groups) ==
    IF index >= limit
    THEN [v4 |-> FALSE, pos |-> i, groups |-> groups]
    ELSE Bind(AfterSeparator(s, i, ":", index), LAMBDA j :
         Bind(IF index < limit - 1 /\ j # 0 THEN read_ipv4_addr(s, j) ELSE Fail(i),
              LAMBDA ipv4 :
                  IF ipv4.ok
                  THEN [v4 |-> TRUE, pos |-> ipv4.pos,
                        groups |-> groups \o
                                   <<ipv4.val[1] * 256 + ipv4.val[2],
                                     ipv4.val[3] * 256 + ipv4.val[4]>>]
                  ELSE Bind(IF j = 0 THEN Fail(i)
                            ELSE ReadNumber(s, j, 16, 4, TRUE, U16Max),
                            LAMBDA group :
                                IF group.ok
                                THEN ReadGroups(s, group.pos, limit, index + 1,
                                                Append(groups, group.val))
                                ELSE [v4 |-> FALSE, pos |-> i,
                                      groups |-> groups])))

Zeros(n) == [i \in 1..n |-> 0]

\* The position after "::", or 0 when s does not hold "::" at i
AfterColons(s, i) ==
    IF i + 1 <= Len(s) /\ s[i] = ":" /\ s[i + 1] = ":" THEN i + 2 ELSE 0

\* Parser::read_ipv6_addr: eight groups, or a head and a tail around one "::"
read_ipv6_addr(s, i) ==
    Bind(ReadGroups(s, i, 8, 0, <<>>), LAMBDA head :
        IF Len(head.groups) = 8 THEN Ok(head.groups, head.pos)
        ELSE IF head.v4 THEN Fail(i)
        ELSE IF AfterColons(s, head.pos) = 0 THEN Fail(i)
        ELSE Bind(ReadGroups(s, AfterColons(s, head.pos),
                             8 - (Len(head.groups) + 1), 0, <<>>),
                  LAMBDA tail :
                      Ok(head.groups \o
                         Zeros(8 - Len(head.groups) - Len(tail.groups)) \o
                         tail.groups,
                         tail.pos)))

\* Parser::read_port: ':' and a decimal u16, zero prefix allowed
read_port(s, i) ==
    Bind(AfterChar(s, i, ":"), LAMBDA j :
        IF j = 0 THEN Fail(i) ELSE ReadNumber(s, j, 10, 0, TRUE, U16Max))

\* The position after the decimal digits that start at i
RECURSIVE AfterDigits(_, _)
AfterDigits(s, i) ==
    IF i <= Len(s) /\ s[i] \in DecChars THEN AfterDigits(s, i + 1) ELSE i

\* A decimal numeral without its zero prefix
RECURSIVE StripZeros(_)
StripZeros(d) == IF Len(d) > 1 /\ d[1] = "0" THEN StripZeros(Tail(d)) ELSE d

\* Whether numeral a (no zero prefix) is at most numeral b
NumeralLeq(a, b) ==
    \/ Len(a) < Len(b)
    \/ /\ Len(a) = Len(b)
       /\ \/ a = b
          \/ \E i \in 1..Len(a) :
                 /\ DigitVal(a[i]) < DigitVal(b[i])
                 /\ \A h \in 1..(i - 1) : a[h] = b[h]

U32MaxNumeral == <<"4", "2", "9", "4", "9", "6", "7", "2", "9", "5">>

NoScope == <<"0">>

\* Parser::read_scope_id: '%' and a decimal u32, zero prefix allowed.  The
\* value is kept as its decimal numeral, since u32::MAX exceeds the 32-bit
\* integers of TLC.
read_scope_id(s, i) ==
    Bind(AfterChar(s, i, "%"), LAMBDA j :
        IF j = 0 THEN Fail(i)
        ELSE Bind(AfterDigits(s, j), LAMBDA k :
             Bind(StripZeros(SubSeq(s, j, k - 1)), LAMBDA numeral :
                 IF k = j THEN Fail(i)
                 ELSE IF ~NumeralLeq(numeral, U32MaxNumeral) THEN Fail(i)
                 ELSE Ok(numeral, k))))

\* Parser::read_socket_addr_v4
read_socket_addr_v4(s, i) ==
    Bind(read_ipv4_addr(s, i), LAMBDA ip :
        IF ~ip.ok THEN Fail(i)
        ELSE Bind(read_port(s, ip.pos), LAMBDA port :
                 IF port.ok
                 THEN Ok([v |-> 4, ip |-> ip.val, port |-> port.val], port.pos)
                 ELSE Fail(i)))

\* Parser::read_socket_addr_v6: '[' ip ('%' scope)? ']' port
read_socket_addr_v6(s, i) ==
    Bind(IF AfterChar(s, i, "[") = 0 THEN Fail(i)
         ELSE read_ipv6_addr(s, AfterChar(s, i, "[")), LAMBDA ip :
        IF ~ip.ok THEN Fail(i)
        ELSE Bind(read_scope_id(s, ip.pos), LAMBDA scope :
             Bind(IF AfterChar(s, scope.pos, "]") = 0 THEN Fail(i)
                  ELSE read_port(s, AfterChar(s, scope.pos, "]")), LAMBDA port :
                 IF port.ok
                 THEN Ok([v |-> 6, ip |-> ip.val,
                          scope_id |-> IF scope.ok THEN scope.val ELSE NoScope,
                          port |-> port.val], port.pos)
                 ELSE Fail(i))))

\* SocketAddr::from_str: V4, else V6, and the whole input must be consumed
ParseSocketAddr(s) ==
    Bind(read_socket_addr_v4(s, 1), LAMBDA v4 :
    Bind(IF v4.ok THEN v4 ELSE read_socket_addr_v6(s, 1), LAMBDA r :
        IF r.ok /\ r.pos = Len(s) + 1 THEN Some(r.val) ELSE None))

-----------------------------------------------------------------------------
(* std::net address formatting (Display) *)

\* Display for Ipv4Addr
FmtIpv4(ip) ==
    FmtDec(ip[1]) \o <<".">> \o FmtDec(ip[2]) \o <<".">> \o
    FmtDec(ip[3]) \o <<".">> \o FmtDec(ip[4])

\* fmt_subslice of Display for Ipv6Addr: segments in hexadecimal, joined by ':'
RECURSIVE FmtSubslice(_)
FmtSubslice(chunk) ==
    IF Len(chunk) = 0 THEN <<>>
    ELSE IF Len(chunk) = 1 THEN FmtHex(chunk[1])
    ELSE FmtHex(chunk[1]) \o <<":">> \o FmtSubslice(Tail(chunk))

\* The length of the run of zero segments that starts at segment i
RECURSIVE ZeroRun(_, _)
ZeroRun(seg, i) ==
    IF i <= Len(seg) /\ seg[i] = 0 THEN 1 + ZeroRun(seg, i + 1) ELSE 0

\* Display for Ipv6Addr: an IPv4-mapped address as ::ffff:a.b.c.d, otherwise
\* the first longest run of two or more zero segments is written as "::"
FmtIpv6(seg) ==
    IF \A i \in 1..5 : seg[i] = 0 /\ seg[6] = U16Max
    THEN <<":", ":", "f", "f", "f", "f", ":">> \o
         FmtIpv4(<<seg[7] \div 256, seg[7] % 256, seg[8] \div 256, seg[8] % 256>>)
    ELSE LET len == CHOOSE n \in 0..8 :
                        /\ \E i \in 1..8 : ZeroRun(seg, i) = n
                        /\ \A i \in 1..8 : ZeroRun(seg, i) <= n
             start == CHOOSE i \in 1..8 :
                          /\ ZeroRun(seg, i) = len
                          /\ \A h \in 1..(i - 1) : ZeroRun(seg, h) < len
         IN  IF len > 1
             THEN FmtSubslice(SubSeq(seg, 1, start - 1)) \o <<":", ":">> \o
                  FmtSubslice(SubSeq(seg, start + len, 8))
             ELSE FmtSubslice(seg)

\* Display for SocketAddr (V4: ip:port; V6: [ip]:port, [ip%scope]:port)
SocketAddrToString(a) ==
    IF a.v = 4
    THEN FmtIpv4(a.ip) \o <<":">> \o FmtDec(a.port)
    ELSE <<"[">> \o FmtIpv6(a.ip) \o
         (IF a.scope_id = NoScope THEN <<>> ELSE <<"%">> \o a.scope_id) \o
         <<"]", ":">> \o FmtDec(a.port)

\* IpAddr::is_unspecified: 0.0.0.0 or ::
is_unspecified(a) == \A i \in 1..Len(a.ip) : a.ip[i] = 0

\* SocketAddr::set_ip with a V4 address: a V4 socket address on the same port
set_ip_v4(a, ip) == [v |-> 4, ip |-> ip, port |-> a.port]

-----------------------------------------------------------------------------
(* String literals of config/clash/mod.rs *)

DefaultCtrl ==
    <<"1", "2", "7", ".", "0", ".", "0", ".", "1", ":", "9", "0", "9", "0">>

Loopback == <<"1", "2", "7", ".", "0", ".", "0", ".", "1">>

DefaultPortStr == <<"9", "0", "9", "0">>

TemplateCtrlDebug ==
    <<"1", "2", "7", ".", "0", ".", "0", ".", "1", ":", "9", "8", "7", "2">>

TemplateCtrlRelease ==
    <<"1", "2", "7", ".", "0", ".", "0", ".", "1", ":", "1", "7", "6", "5",
      "0">>

StrInfo == <<"i", "n", "f", "o">>

StrRule == <<"r", "u", "l", "e">>

StrTrue == <<"t", "r", "u", "e">>

StrFalse == <<"f", "a", "l", "s", "e">>

DefaultMixedPort == 7890

DefaultCtrlPort == 9090

LoopbackIp == <<127, 0, 0, 1>>

-----------------------------------------------------------------------------
(* IClashTemp *)

\* Faulty variant of guard_mixed_port: a port of 0 is not replaced by 7890
guard_mixed_port_no_zero_default(config) ==
    Bind(Get(config, "mixed-port"), LAMBDA value :
        IF ~IsSome(value) THEN DefaultMixedPort
        ELSE IF Unwrap(value).t = "String"
             THEN UnwrapOr(ParseU16(Unwrap(value).s), DefaultMixedPort)
        ELSE IF Unwrap(value).t = "Number" /\ IsSome(as_u64(Unwrap(value)))
             THEN AsU16(Unwrap(as_u64(Unwrap(value))))
        ELSE DefaultMixedPort)

\* IClashTemp::guard_mixed_port
guard_mixed_port(config) ==
    LET value == Get(config, "mixed-port")
        parsed == IF ~IsSome(value) THEN None
                  ELSE IF Unwrap(value).t = "String" THEN ParseU16(Unwrap(value).s)
                  ELSE IF Unwrap(value).t = "Number"
                       THEN IF IsSome(as_u64(Unwrap(value)))
                            THEN Some(AsU16(Unwrap(as_u64(Unwrap(value)))))
                            ELSE None
                  ELSE None
        port == UnwrapOr(parsed, DefaultMixedPort)
    IN  IF port = 0 THEN DefaultMixedPort ELSE port

\* The string guard_server_ctrl parses: trimmed, and with 127.0.0.1 before a
\* leading ':'
CtrlCandidate(val_str) ==
    LET trimmed == trim(val_str)
    IN  IF starts_with(trimmed, ":") THEN Loopback \o trimmed ELSE trimmed

\* Faulty variant of guard_server_ctrl: the value is parsed without trim()
guard_server_ctrl_no_trim(config) ==
    Bind(Get(config, "external-controller"), LAMBDA value :
    Bind(IF IsSome(value) THEN as_str(Unwrap(value)) ELSE None, LAMBDA str :
    Bind(IF ~IsSome(str) THEN None
         ELSE IF starts_with(Unwrap(str), ":")
              THEN ParseSocketAddr(Loopback \o Unwrap(str))
              ELSE ParseSocketAddr(Unwrap(str)), LAMBDA addr :
        IF IsSome(addr) THEN SocketAddrToString(Unwrap(addr))
        ELSE DefaultCtrl)))

\* Faulty variant of guard_server_ctrl: the address is written as
\* format!("{}:{}", ip, port), which leaves an IPv6 host without its brackets
guard_server_ctrl_ip_port(config) ==
    Bind(Get(config, "external-controller"), LAMBDA value :
    Bind(IF IsSome(value) THEN as_str(Unwrap(value)) ELSE None, LAMBDA str :
    Bind(IF IsSome(str) THEN ParseSocketAddr(CtrlCandidate(Unwrap(str)))
         ELSE None, LAMBDA addr :
        IF ~IsSome(addr) THEN DefaultCtrl
        ELSE IF Unwrap(addr).v = 4 THEN SocketAddrToString(Unwrap(addr))
        ELSE FmtIpv6(Unwrap(addr).ip) \o <<":">> \o FmtDec(Unwrap(addr).port))))

\* IClashTemp::guard_server_ctrl
guard_server_ctrl(config) ==
    Bind(Get(config, "external-controller"), LAMBDA value :
    Bind(IF IsSome(value) THEN as_str(Unwrap(value)) ELSE None, LAMBDA str :
    Bind(IF IsSome(str) THEN ParseSocketAddr(CtrlCandidate(Unwrap(str)))
         ELSE None, LAMBDA addr :
        IF IsSome(addr) THEN SocketAddrToString(Unwrap(addr))
        ELSE DefaultCtrl)))

\* Faulty variant of guard_client_ctrl: only 0.0.0.0 is taken as unspecified
guard_client_ctrl_v4_only(config) ==
    Bind(ParseSocketAddr(guard_server_ctrl(config)), LAMBDA socket :
        IF IsSome(socket)
        THEN IF Unwrap(socket).ip = <<0, 0, 0, 0>>
             THEN SocketAddrToString(set_ip_v4(Unwrap(socket), LoopbackIp))
             ELSE SocketAddrToString(Unwrap(socket))
        ELSE DefaultCtrl)

\* IClashTemp::guard_client_ctrl
guard_client_ctrl(config) ==
    Bind(ParseSocketAddr(guard_server_ctrl(config)), LAMBDA socket :
        IF IsSome(socket)
        THEN IF is_unspecified(Unwrap(socket))
             THEN SocketAddrToString(set_ip_v4(Unwrap(socket), LoopbackIp))
             ELSE SocketAddrToString(Unwrap(socket))
        ELSE DefaultCtrl)

\* IClashTemp::guard
guard(config) ==
    LET port == guard_mixed_port(config)
        ctrl == guard_server_ctrl(config)
    IN  Insert(Insert(config, "mixed-port", VInt(port)),
               "external-controller", VStr(ctrl))

\* IClashTemp::template, for a build (debug_assertions, feature default-meta)
\* and the uuid that Uuid::new_v4 drew
template(debug_assertions, default_meta, uuid) ==
    LET m1 == Insert(<<>>, "mixed-port", VInt(7890))
        m2 == Insert(m1, "log-level", VStr(StrInfo))
        m3 == Insert(m2, "allow-lan", VBool(FALSE))
        m4 == Insert(m3, "mode", VStr(StrRule))
        m5 == Insert(m4, "external-controller",
                     VStr(IF debug_assertions THEN TemplateCtrlDebug
                          ELSE TemplateCtrlRelease))
        m6 == Insert(m5, "secret", VStr(uuid))
        m7 == IF default_meta
              THEN Insert(Insert(m6, "unified-delay", VBool(TRUE)),
                          "tcp-concurrent", VBool(TRUE))
              ELSE m6
    IN  Insert(m7, "ipv6", VBool(FALSE))

\* Faulty variant of new: the loaded mapping is kept as loaded, without guard
new_unguarded(loaded, debug_assertions, default_meta, uuid) ==
    IF loaded.ok THEN loaded.map
    ELSE template(debug_assertions, default_meta, uuid)

\* IClashTemp::new, for what dirs::clash_path and help::read_merge_mapping
\* returned (loaded) and the build and uuid of the template
new(loaded, debug_assertions, default_meta, uuid) ==
    IF loaded.ok THEN guard(loaded.map)
    ELSE template(debug_assertions, default_meta, uuid)

\* Faulty variant of patch_config: a key the document holds is not overwritten
RECURSIVE patch_config_keep_existing(_, _)
patch_config_keep_existing(config, patch) ==
    IF Len(patch) = 0 THEN config
    ELSE IF patch[1].k \in Keys(config)
         THEN patch_config_keep_existing(config, Tail(patch))
         ELSE patch_config_keep_existing(
                  Insert(config, patch[1].k, patch[1].v), Tail(patch))

\* IClashTemp::patch_config: every entry of patch inserted in patch order
RECURSIVE patch_config(_, _)
patch_config(config, patch) ==
    IF Len(patch) = 0 THEN config
    ELSE patch_config(Insert(config, patch[1].k, patch[1].v), Tail(patch))

\* Display of a serde_yaml Number (an integer, or the float n/10)
FmtNumber(num) ==
    LET abs == IF num.n < 0 THEN -num.n ELSE num.n
        sign == IF num.n < 0 THEN <<"-">> ELSE <<>>
    IN  IF num.float
        THEN sign \o FmtDec(abs \div 10) \o <<".">> \o FmtDec(abs % 10)
        ELSE sign \o FmtDec(abs)

\* IClashTemp::get_client_info
get_client_info(config) ==
    LET value == Get(config, "secret")
    IN  [port |-> guard_mixed_port(config),
         server |-> guard_client_ctrl(config),
         secret |-> IF ~IsSome(value) THEN None
                    ELSE IF Unwrap(value).t = "String" THEN Some(Unwrap(value).s)
                    ELSE IF Unwrap(value).t = "Bool"
                         THEN Some(IF Unwrap(value).b THEN StrTrue ELSE StrFalse)
                    ELSE IF Unwrap(value).t = "Number"
                         THEN Some(FmtNumber(Unwrap(value)))
                    ELSE None]

\* IClashTemp::get_mixed_port
get_mixed_port(config) == guard_mixed_port(config)

\* The address and port prepare_external_controller_port reads from the
\* client address: split at the first ':', the port part parsed as u16
PrepareServer(config) ==
    Bind(UnwrapOr(split_once(get_client_info(config).server, ":"),
                  <<Loopback, DefaultPortStr>>),
         LAMBDA parts :
             [server_ip |-> parts[1],
              server_port |-> UnwrapOr(ParseU16(parts[2]), DefaultCtrlPort)])

\* Faulty variant of prepare_external_controller_port: the result of
\* get_clash_external_port is used without the `?`, an error counting as port 0
prepare_ignoring_error(config, resolved) ==
    Bind(PrepareServer(config), LAMBDA s :
        IF resolved.port # s.server_port
        THEN patch_config(config,
                 <<[k |-> "external-controller",
                    v |-> VStr(s.server_ip \o <<":">> \o
                               FmtDec(resolved.port))]>>)
        ELSE config)

\* IClashTemp::prepare_external_controller_port, for what
\* get_clash_external_port returned (resolved): the document afterwards
prepare_external_controller_port(config, resolved) ==
    Bind(PrepareServer(config), LAMBDA s :
        IF ~resolved.ok THEN config
        ELSE IF resolved.port # s.server_port
             THEN patch_config(config,
                      <<[k |-> "external-controller",
                         v |-> VStr(s.server_ip \o <<":">> \o
                                    FmtDec(resolved.port))]>>)
             ELSE config)

-----------------------------------------------------------------------------
(* Sampled strings: the values of the test table of mod.rs and further     *)
(* members of each class of `mixed-port` and `external-controller` values  *)

S_Empty == <<>>

S_Loopback8888 ==
    <<"1", "2", "7", ".", "0", ".", "0", ".", "1", ":", "8", "8", "8", "8">>

S_PortOnlyOverflow == <<" ", " ", " ", ":", "9", "8", "8", "8", "8", " ">>

S_PortOnly == <<":", "9", "0", "9", "1">>

S_AnyV4Padded ==
    <<"0", ".", "0", ".", "0", ".", "0", ":", "8", "0", "8", "0", " ", " ">>

S_AnyV4 == <<"0", ".", "0", ".", "0", ".", "0", ":", "8", "0", "8", "0">>

S_AnyV6 == <<"[", ":", ":", "]", ":", "8", "0", "8", "0">>

S_Lan ==
    <<"1", "9", "2", ".", "1", "6", "8", ".", "1", ".", "1", ":", "8", "0",
      "8", "0">>

S_LanOverflow ==
    <<"1", "9", "2", ".", "1", "6", "8", ".", "1", ".", "1", ":", "8", "0",
      "8", "0", "0">>

S_LoopbackV6 == <<"[", ":", ":", "1", "]", ":", "8", "0", "8", "0">>

S_HostName ==
    <<"l", "o", "c", "a", "l", "h", "o", "s", "t", ":", "9", "0", "9", "0">>

S_NoPort == <<"1", "2", "7", ".", "0", ".", "0", ".", "1">>

S_Garbage ==
    <<"1", "2", "7", ".", "0", ".", "0", ".", "1", ":", "9", "0", "9", "0",
      "x">>

S_ZeroPrefixPort ==
    <<"1", "2", "7", ".", "0", ".", "0", ".", "1", ":", "0", "0", "8", "0">>

S_ZeroPrefixOctet ==
    <<"1", "2", "7", ".", "0", ".", "0", ".", "0", "1", ":", "8", "0">>

S_BigOctet == <<"2", "5", "6", ".", "0", ".", "0", ".", "1", ":", "8", "0">>

S_PortZero == <<"1", "2", "7", ".", "0", ".", "0", ".", "1", ":", "0">>

S_FullV6 ==
    <<"[", "0", ":", "0", ":", "0", ":", "0", ":", "0", ":", "0", ":", "0",
      ":", "0", "]", ":", "9">>

S_UpperV6 ==
    <<"[", "2", "0", "0", "1", ":", "D", "B", "8", ":", "0", ":", "0", ":",
      "1", ":", "0", ":", "0", ":", "1", "]", ":", "4", "4", "3">>

S_ScopedV6 ==
    <<"[", "f", "e", "8", "0", ":", ":", "1", "%", "3", "]", ":", "8", "0">>

S_MappedV6 ==
    <<"[", ":", ":", "f", "f", "f", "f", ":", "1", "0", ".", "0", ".", "0",
      ".", "1", "]", ":", "8", "0">>

S_TabbedV4 ==
    <<"\t", "1", "0", ".", "0", ".", "0", ".", "2", ":", "7", "0", "0", "0",
      "\n">>

S_FormFeedV4 ==
    <<"\f", "1", "2", "7", ".", "0", ".", "0", ".", "1", ":", "8", "0", "8", "0">>

S_NbspAnyV4 ==
    <<"U+00A0", "0", ".", "0", ".", "0", ".", "0", ":", "8", "0", "8", "0",
      "U+000B", "U+3000">>

S_InnerSpace ==
    <<"1", "2", "7", ".", "0", ".", "0", ".", "1", " ", ":", "8", "0", "8", "0">>

S_Loopback8080 ==
    <<"1", "2", "7", ".", "0", ".", "0", ".", "1", ":", "8", "0", "8", "0">>

S_8080 == <<"8", "0", "8", "0">>

S_Zero == <<"0">>

S_65536 == <<"6", "5", "5", "3", "6">>

S_Plus80 == <<"+", "8", "0">>

S_Space80 == <<" ", "8", "0">>

S_Minus1 == <<"-", "1">>

S_Abc == <<"a", "b", "c">>

S_Secret == <<"s", "3", "c", "r", "e", "t">>

S_FakeIpRange ==
    <<"1", "9", "8", ".", "1", "8", ".", "0", ".", "1", "/", "1", "6">>

UuidA ==
    <<"0", "b", "5", "c", "6", "e", "2", "a", "-", "6", "f", "1", "d", "-",
      "4", "c", "3", "e", "-", "9", "a", "7", "b", "-", "2", "d", "8", "f",
      "4", "e", "1", "c", "9", "a", "1", "0">>

UuidB ==
    <<"f", "4", "7", "a", "c", "1", "0", "b", "-", "5", "8", "c", "c", "-",
      "4", "3", "7", "2", "-", "a", "5", "6", "7", "-", "0", "e", "0", "2",
      "b", "2", "c", "3", "d", "4", "7", "9">>

-----------------------------------------------------------------------------
(* Inputs *)

\* The most entries a patch handed to patch_config holds
MaxPatchKeys == 2

Absent == <<>>

Entry(key, value) == <<[k |-> key, v |-> value]>>

\* A nested mapping as the `dns` section holds it
DnsStored ==
    VMap(<<[k |-> "enable", v |-> VBool(TRUE)],
           [k |-> "fake-ip-range", v |-> VStr(S_FakeIpRange)]>>)

DnsPatch == VMap(<<[k |-> "enable", v |-> VBool(FALSE)]>>)

\* Values of `mixed-port` in a raw document
MixedPortSamples ==
    {VInt(8888), VInt(0), VInt(1), VInt(65535), VInt(65536), VInt(65537),
     VInt(139952), VInt(-1), VInt(-8888), VFloat(78905), VFloat(10),
     VStr(S_Empty), VStr(S_8080), VStr(S_Zero), VStr(S_65536), VStr(S_Plus80),
     VStr(S_Space80), VStr(S_Minus1), VStr(S_Abc), VBool(TRUE), VNull,
     VSeq(<<VInt(8888)>>), VMap(<<[k |-> "port", v |-> VInt(8888)]>>)}

\* Values of `external-controller` in a raw document
CtrlStrings ==
    {S_Empty, S_Loopback8888, S_PortOnlyOverflow, S_PortOnly, S_AnyV4Padded,
     S_AnyV4, S_AnyV6, S_Lan, S_LanOverflow, S_LoopbackV6, S_HostName, S_NoPort,
     S_Garbage, S_ZeroPrefixPort, S_ZeroPrefixOctet, S_BigOctet, S_PortZero,
     S_FullV6, S_UpperV6, S_ScopedV6, S_MappedV6, S_TabbedV4, S_FormFeedV4,
     S_NbspAnyV4, S_InnerSpace}

CtrlSamples ==
    {VStr(s) : s \in CtrlStrings} \cup
    {VInt(9090), VBool(FALSE), VNull, VSeq(<<VStr(S_Loopback8888)>>),
     VMap(<<[k |-> "addr", v |-> VStr(S_Loopback8888)]>>)}

\* Raw documents, as a test hands them to guard: each of the two guarded keys
\* absent or present with a sampled value, among other keys
RawDocs ==
    {mp \o Entry("mode", VStr(StrRule)) \o ec :
        mp \in {Absent} \cup {Entry("mixed-port", v) : v \in MixedPortSamples},
        ec \in {Absent} \cup {Entry("external-controller", v) : v \in CtrlSamples}}

\* Documents the storage collaborator may hold when IClashTemp::new loads
StoredDocs ==
    {mp \o ec \o rest :
        mp \in {Absent, Entry("mixed-port", VInt(8888)),
                Entry("mixed-port", VStr(S_Empty))},
        ec \in {Absent} \cup {Entry("external-controller", VStr(s)) :
                                 s \in {S_Loopback8888, S_AnyV6, S_LanOverflow}},
        rest \in {Absent,
                  Entry("secret", VStr(S_Secret)) \o Entry("dns", DnsStored)}}

\* What dirs::clash_path().and_then(read_merge_mapping) may return
LoadOutcomes ==
    {[ok |-> FALSE]} \cup {[ok |-> TRUE, map |-> m] : m \in StoredDocs}

\* The uuids Uuid::new_v4 may draw
UuidSamples == {UuidA, UuidB}

\* Entries a caller may put in a patch
PatchEntries ==
    {[k |-> "mixed-port", v |-> v] : v \in {VInt(65537), VStr(S_Empty)}} \cup
    {[k |-> "external-controller", v |-> VStr(s)] :
        s \in {S_AnyV4Padded, S_LoopbackV6, S_PortOnlyOverflow}} \cup
    {[k |-> "dns", v |-> DnsPatch]}

\* Patches: mappings of at most MaxPatchKeys entries (keys unique, in order)
Patches ==
    {p \in UNION {[1..n -> PatchEntries] : n \in 0..MaxPatchKeys} :
        \A i, j \in 1..Len(p) : i # j => p[i].k # p[j].k}

\* Ports the port scanner may find open, besides the requested one
OpenPorts == {8080, 9091}

\* What get_clash_external_port(strategy, server_port) may return: an error
\* (the port is taken under the fixed strategy, no open port is found), the
\* requested port, or another open port
PortOutcomes(server_port) ==
    {[ok |-> FALSE, port |-> 0]} \cup
    {[ok |-> TRUE, port |-> p] : p \in {server_port} \cup OpenPorts}

-----------------------------------------------------------------------------
(* The life of one IClashTemp *)

\* let clash = IClashTemp::new()
Init ==
    \E loaded \in LoadOutcomes, debug_assertions \in BOOLEAN,
       default_meta \in BOOLEAN, uuid \in UuidSamples :
        /\ doc = new(loaded, debug_assertions, default_meta, uuid)
        /\ prev = <<>>
        /\ op = "new"
        /\ arg = IF loaded.ok THEN loaded
                 ELSE [ok |-> FALSE, debug_assertions |-> debug_assertions,
                       default_meta |-> default_meta, uuid |-> uuid]
        /\ ret = [ok |-> TRUE]

\* clash.patch_config(patch)
PatchConfig ==
    \E patch \in Patches :
        /\ doc' = patch_config(doc, patch)
        /\ prev' = doc
        /\ op' = "patch_config"
        /\ arg' = patch
        /\ ret' = [ok |-> TRUE]

\* clash.prepare_external_controller_port()
PrepareExternalControllerPort ==
    \E resolved \in PortOutcomes(PrepareServer(doc).server_port) :
        /\ doc' = prepare_external_controller_port(doc, resolved)
        /\ prev' = doc
        /\ op' = "prepare_external_controller_port"
        /\ arg' = resolved
        /\ ret' = [ok |-> resolved.ok]

\* clash.save_config(): the document is handed to help::save_yaml, whose
\* result is returned; the document in memory is not touched
SaveConfig ==
    \E saved \in BOOLEAN :
        /\ doc' = doc
        /\ prev' = doc
        /\ op' = "save_config"
        /\ arg' = [ok |-> saved]
        /\ ret' = [ok |-> saved]

\* clash.get_client_info()
GetClientInfo ==
    /\ doc' = doc
    /\ prev' = doc
    /\ op' = "get_client_info"
    /\ arg' = <<>>
    /\ ret' = get_client_info(doc)

\* clash.get_mixed_port()
GetMixedPort ==
    /\ doc' = doc
    /\ prev' = doc
    /\ op' = "get_mixed_port"
    /\ arg' = <<>>
    /\ ret' = [port |-> get_mixed_port(doc)]

Next ==
    \/ PatchConfig
    \/ PrepareExternalControllerPort
    \/ SaveConfig
    \/ GetClientInfo
    \/ GetMixedPort

Spec == Init /\ [][Next]_vars

-----------------------------------------------------------------------------
(* The guard functions applied to raw documents, as test_clash_info does:  *)
(* IClashTemp(IClashTemp::guard(map)).get_client_info()                    *)

InitGuard ==
    /\ doc \in RawDocs
    /\ prev = <<>>
    /\ op = "input"
    /\ arg = <<>>
    /\ ret = <<>>

\* IClashTemp(IClashTemp::guard(doc))
Guard ==
    /\ doc' = guard(doc)
    /\ prev' = doc
    /\ op' = "guard"
    /\ arg' = <<>>
    /\ ret' = [ok |-> TRUE]

\* IClashTemp::guard_server_ctrl(&doc)
GuardServerCtrl ==
    /\ doc' = doc
    /\ prev' = doc
    /\ op' = "guard_server_ctrl"
    /\ arg' = <<>>
    /\ ret' = [server |-> guard_server_ctrl(doc)]

\* IClashTemp::guard_client_ctrl(&doc)
GuardClientCtrl ==
    /\ doc' = doc
    /\ prev' = doc
    /\ op' = "guard_client_ctrl"
    /\ arg' = <<>>
    /\ ret' = [server |-> guard_client_ctrl(doc)]

NextGuard ==
    \/ Guard
    \/ GuardServerCtrl
    \/ GuardClientCtrl
    \/ GetClientInfo
    \/ GetMixedPort

SpecGuard == InitGuard /\ [][NextGuard]_vars

-----------------------------------------------------------------------------
(* Vocabulary of the properties *)

MIXED_PORT == "mixed-port"

EXTERNAL_CONTROLLER == "external-controller"

PREPARE == "prepare_external_controller_port"

\* s parses as a socket address and is the canonical text of that address
Canonical(s) ==
    /\ IsSome(ParseSocketAddr(s))
    /\ SocketAddrToString(Unwrap(ParseSocketAddr(s))) = s

\* Both guarded keys are present and well-formed, and guard changes nothing
WellFormedDoc(d) ==
    /\ IsSome(Get(d, MIXED_PORT))
    /\ Unwrap(Get(d, MIXED_PORT)).t = "Number"
    /\ ~Unwrap(Get(d, MIXED_PORT)).float
    /\ Unwrap(Get(d, MIXED_PORT)).n \in 1..65535
    /\ IsSome(Get(d, EXTERNAL_CONTROLLER))
    /\ Unwrap(Get(d, EXTERNAL_CONTROLLER)).t = "String"
    /\ Canonical(Unwrap(Get(d, EXTERNAL_CONTROLLER)).s)
    /\ guard(d) = d

\* The value under key is a string
HasString(d, key) == IsSome(Get(d, key)) /\ Unwrap(Get(d, key)).t = "String"

\* The configured controller address is a well-formed string
CtrlWellFormed(d) ==
    HasString(d, EXTERNAL_CONTROLLER) /\
    Canonical(Unwrap(Get(d, EXTERNAL_CONTROLLER)).s)

CtrlText(d) == Unwrap(Get(d, EXTERNAL_CONTROLLER)).s

\* The host text of a canonical address: what precedes its last ':'
HostText(s) ==
    SubSeq(s, 1, (CHOOSE i \in 1..Len(s) :
                      s[i] = ":" /\ \A j \in (i + 1)..Len(s) : s[j] # ":") - 1)

\* d and e agree on every key but `key`, and hold the same keys in the same order
SameExcept(d, e, key) ==
    /\ Len(d) = Len(e)
    /\ \A i \in 1..Len(d) : d[i].k = e[i].k /\ (d[i].k # key => d[i].v = e[i].v)

-----------------------------------------------------------------------------
(* C1 *)

\* C1 as stated: in every state after construction the document holds
\* `mixed-port` as an integer in 1..65535 and `external-controller` as a
\* canonical host:port string, so that guard would leave it unchanged.
C1_DocumentAlwaysWellFormed == WellFormedDoc(doc)

\* C1 amended: the document holds both keys in every state, is well-formed
\* right after construction, and in every state what the guard derives from it
\* is well-formed: the mixed port is in 1..65535, the server and client
\* addresses are canonical, and guard(doc) is a well-formed document.  The
\* stored values themselves are whatever was last written.
C1_GuardedViewsAlwaysWellFormed ==
    /\ {MIXED_PORT, EXTERNAL_CONTROLLER} \subseteq Keys(doc)
    /\ op = "new" => WellFormedDoc(doc)
    /\ get_mixed_port(doc) \in 1..65535
    /\ get_client_info(doc).port \in 1..65535
    /\ Canonical(guard_server_ctrl(doc))
    /\ Canonical(get_client_info(doc).server)
    /\ WellFormedDoc(guard(doc))

\* A patch has put invalid values under both guarded keys
C1_Witness ==
    /\ op = "patch_config"
    /\ Get(doc, MIXED_PORT) = Some(VStr(S_Empty))
    /\ Get(doc, EXTERNAL_CONTROLLER) = Some(VStr(S_PortOnlyOverflow))
    /\ Get(prev, MIXED_PORT) = Some(VInt(65537))

-----------------------------------------------------------------------------
(* C2 *)

\* C2 as stated: when the resolved port differs from the port of the
\* well-formed configured controller address,
\* prepare_external_controller_port changes exactly `external-controller`,
\* to host:resolved_port with the host of the configured address.
C2_PrepareKeepsHost ==
    (/\ op = PREPARE
     /\ arg.ok
     /\ CtrlWellFormed(prev)
     /\ arg.port # Unwrap(ParseSocketAddr(CtrlText(prev))).port)
    => /\ SameExcept(prev, doc, EXTERNAL_CONTROLLER)
       /\ Get(doc, EXTERNAL_CONTROLLER) =
              Some(VStr(HostText(CtrlText(prev)) \o <<":">> \o FmtDec(arg.port)))

-----------------------------------------------------------------------------
(* C3 *)

\* C3 as stated: when the resolved port equals the port of the configured
\* controller address (the port of the client-reachable address),
\* prepare_external_controller_port leaves the document as it was.
C3_NoMutationWhenPortEqual ==
    (/\ op = PREPARE
     /\ arg.ok
     /\ arg.port = Unwrap(ParseSocketAddr(guard_client_ctrl(prev))).port)
    => doc = prev

-----------------------------------------------------------------------------
(* C4 *)

\* C4: when get_clash_external_port fails, prepare_external_controller_port
\* returns the error and the document is what it was before the call.
C4_ErrorLeavesDocument ==
    (op = PREPARE /\ ~arg.ok) => (~ret.ok /\ doc = prev)

\* The port resolution failed on a document whose controller port is not the
\* default one
C4_Witness ==
    /\ op = PREPARE
    /\ ~arg.ok
    /\ ~ret.ok
    /\ PrepareServer(prev).server_port = 8888

-----------------------------------------------------------------------------
(* C5 *)

\* C5: guard is idempotent, guard(guard(doc)) = guard(doc) for every document.
C5_GuardIdempotent == guard(guard(doc)) = guard(doc)

\* guard rewrote both keys of a document (a string port, an IPv6 address in
\* upper case) and was applied to the result
C5_Witness ==
    /\ op = "guard"
    /\ Get(prev, MIXED_PORT) = Some(VInt(8080))
    /\ Get(prev, EXTERNAL_CONTROLLER) # Some(VStr(S_UpperV6))
    /\ IsSome(Get(prev, EXTERNAL_CONTROLLER))
    /\ Unwrap(Get(prev, EXTERNAL_CONTROLLER)).t = "String"
    /\ ParseSocketAddr(Unwrap(Get(prev, EXTERNAL_CONTROLLER)).s) =
           ParseSocketAddr(S_UpperV6)
    /\ doc = prev

-----------------------------------------------------------------------------
(* C6 *)

\* What C6 says guard_mixed_port returns for the value option under
\* `mixed-port`
C6_Expected(value) ==
    LET orDefault(p) == IF p = 0 THEN 7890 ELSE p
    IN  IF ~IsSome(value) THEN 7890
        ELSE IF Unwrap(value).t = "Number"
             THEN IF Unwrap(value).float \/ Unwrap(value).n < 0 THEN 7890
                  ELSE orDefault(Unwrap(value).n % 65536)
        ELSE IF Unwrap(value).t = "String"
             THEN IF IsSome(ParseU16(Unwrap(value).s))
                  THEN orDefault(Unwrap(ParseU16(Unwrap(value).s)))
                  ELSE 7890
        ELSE 7890

\* C6: guard_mixed_port returns 7890 for an absent, ill-typed, unparseable,
\* negative or non-integer value, n mod 65536 for a non-negative integer n,
\* the parsed value for a string parseable as u16, and 7890 whenever that
\* gives 0; so a value in 1..65535 is returned unchanged and 0 never is.
C6_MixedPortCases ==
    op = "get_mixed_port" =>
        /\ ret.port = C6_Expected(Get(prev, MIXED_PORT))
        /\ ret.port \in 1..65535
        /\ (/\ IsSome(Get(prev, MIXED_PORT))
            /\ Unwrap(Get(prev, MIXED_PORT)).t = "Number"
            /\ ~Unwrap(Get(prev, MIXED_PORT)).float
            /\ Unwrap(Get(prev, MIXED_PORT)).n \in 1..65535)
           => ret.port = Unwrap(Get(prev, MIXED_PORT)).n
        /\ Get(prev, MIXED_PORT) = Some(VInt(65537)) => ret.port = 1
        /\ Get(prev, MIXED_PORT) = Some(VInt(0)) => ret.port = 7890
        /\ Get(prev, MIXED_PORT) = Some(VInt(65536)) => ret.port = 7890
        /\ Get(prev, MIXED_PORT) = Some(VStr(S_Empty)) => ret.port = 7890
        /\ Get(prev, MIXED_PORT) = Some(VStr(S_8080)) => ret.port = 8080
        /\ Get(prev, MIXED_PORT) = Some(VStr(S_65536)) => ret.port = 7890
        /\ Get(prev, MIXED_PORT) = Some(VStr(S_Space80)) => ret.port = 7890
        /\ Get(prev, MIXED_PORT) = Some(VFloat(78905)) => ret.port = 7890

\* get_mixed_port truncated 65537 to 1
C6_Witness ==
    /\ op = "get_mixed_port"
    /\ Get(prev, MIXED_PORT) = Some(VInt(65537))
    /\ ret.port = 1

-----------------------------------------------------------------------------
(* C7 *)

C7_Row(input, output) ==
    Get(prev, EXTERNAL_CONTROLLER) = Some(VStr(input)) => ret.server = output

\* C7: guard_server_ctrl returns 127.0.0.1:9090 when `external-controller` is
\* absent, not a string, or (trimmed, and with 127.0.0.1 before a leading ':')
\* not a socket address; otherwise the canonical text of the parsed address,
\* host and port unchanged.
C7_ServerCtrlCases ==
    op = "guard_server_ctrl" =>
        /\ ~HasString(prev, EXTERNAL_CONTROLLER) => ret.server = DefaultCtrl
        /\ HasString(prev, EXTERNAL_CONTROLLER) =>
               LET parsed == ParseSocketAddr(CtrlCandidate(CtrlText(prev)))
               IN  IF IsSome(parsed)
                   THEN Canonical(ret.server) /\ ParseSocketAddr(ret.server) = parsed
                   ELSE ret.server = DefaultCtrl
        /\ C7_Row(S_Empty, DefaultCtrl)
        /\ C7_Row(S_AnyV4Padded, S_AnyV4)
        /\ C7_Row(S_AnyV4, S_AnyV4)
        /\ C7_Row(S_AnyV6, S_AnyV6)
        /\ C7_Row(S_Lan, S_Lan)
        /\ C7_Row(S_PortOnlyOverflow, DefaultCtrl)
        /\ C7_Row(S_LanOverflow, DefaultCtrl)
        /\ C7_Row(S_PortOnly, Loopback \o S_PortOnly)
        /\ C7_Row(S_HostName, DefaultCtrl)
        /\ C7_Row(S_Garbage, DefaultCtrl)
        /\ C7_Row(S_FormFeedV4, S_Loopback8080)
        /\ C7_Row(S_NbspAnyV4, S_AnyV4)
        /\ C7_Row(S_InnerSpace, DefaultCtrl)

\* guard_server_ctrl trimmed "0.0.0.0:8080  " and kept the unspecified host
C7_Witness ==
    /\ op = "guard_server_ctrl"
    /\ Get(prev, EXTERNAL_CONTROLLER) = Some(VStr(S_AnyV4Padded))
    /\ ret.server = S_AnyV4

-----------------------------------------------------------------------------
(* C8 *)

\* C8: guard_client_ctrl, and the server field of get_client_info, is
\* guard_server_ctrl's result, but with host 127.0.0.1 (port kept) when that
\* result's host is 0.0.0.0 or ::; so the client address never has an
\* unspecified host and carries the port of the server address.
C8_ClientCtrlCases ==
    op \in {"guard_client_ctrl", "get_client_info"} =>
        LET server == Unwrap(ParseSocketAddr(guard_server_ctrl(prev)))
            client == Unwrap(ParseSocketAddr(ret.server))
            unspecified == server.ip \in {<<0, 0, 0, 0>>, Zeros(8)}
        IN  /\ unspecified => ret.server = Loopback \o <<":">> \o FmtDec(server.port)
            /\ ~unspecified => ret.server = guard_server_ctrl(prev)
            /\ client.ip \notin {<<0, 0, 0, 0>>, Zeros(8)}
            /\ client.port = server.port

\* get_client_info turned the bind address [::]:8080 into 127.0.0.1:8080
C8_Witness ==
    /\ op = "get_client_info"
    /\ Get(prev, EXTERNAL_CONTROLLER) = Some(VStr(S_AnyV6))
    /\ ret.server = Loopback \o <<":">> \o S_8080

-----------------------------------------------------------------------------
(* C9 *)

\* C9: patch_config is a key-wise upsert: every key of the patch maps to the
\* patch's value, every other key keeps its value (and its place), no key is
\* removed, and a nested mapping is replaced whole.
C9_PatchIsUpsert ==
    op = "patch_config" =>
        /\ \A i \in 1..Len(arg) : Get(doc, arg[i].k) = Some(arg[i].v)
        /\ \A i \in 1..Len(prev) :
               /\ doc[i].k = prev[i].k
               /\ prev[i].k \notin Keys(arg) => doc[i] = prev[i]
        /\ Keys(doc) = Keys(prev) \cup Keys(arg)
        /\ Len(doc) = Cardinality(Keys(doc))

\* A two-key patch replaced the stored `dns` mapping whole, overwrote
\* `external-controller` and left `secret` alone
C9_Witness ==
    /\ op = "patch_config"
    /\ Len(arg) = 2
    /\ Get(prev, "dns") = Some(DnsStored)
    /\ Get(doc, "dns") = Some(DnsPatch)
    /\ Get(prev, EXTERNAL_CONTROLLER) # Get(doc, EXTERNAL_CONTROLLER)
    /\ Get(doc, "secret") = Some(VStr(S_Secret))

-----------------------------------------------------------------------------
(* C10 *)

\* C10: IClashTemp::new never fails: it returns the template when loading
\* failed and the guarded loaded mapping otherwise (the keys it does not guard
\* passed through), and the document it returns is normalized.
C10_NewIsNormalized ==
    op = "new" =>
        /\ ret.ok
        /\ ~arg.ok =>
               /\ doc = template(arg.debug_assertions, arg.default_meta, arg.uuid)
               /\ Get(doc, MIXED_PORT) = Some(VInt(7890))
               /\ Get(doc, "secret") = Some(VStr(arg.uuid))
        /\ arg.ok =>
               /\ Get(doc, MIXED_PORT) = Some(VInt(guard_mixed_port(arg.map)))
               /\ Get(doc, EXTERNAL_CONTROLLER) =
                      Some(VStr(guard_server_ctrl(arg.map)))
               /\ \A k \in Keys(arg.map) \ {MIXED_PORT, EXTERNAL_CONTROLLER} :
                      Get(doc, k) = Get(arg.map, k)
               /\ Keys(doc) = Keys(arg.map) \cup {MIXED_PORT, EXTERNAL_CONTROLLER}
        /\ WellFormedDoc(doc)

\* Loading failed and new returned the release template
C10_Witness ==
    /\ op = "new"
    /\ ~arg.ok
    /\ Get(doc, EXTERNAL_CONTROLLER) = Some(VStr(TemplateCtrlRelease))
    /\ Get(doc, "secret") = Some(VStr(UuidB))

=============================================================================
